---- MODULE Spec2Model ----
(***************************************************************************)
(* Model of the n-gram query parser (webapp/nlp_parser/_parser.py) and of  *)
(* the token window structures (webapp/nlp_parser/_data_structures.py).    *)
(*                                                                         *)
(* A Python str is a sequence of one-character strings.  Cyrillic letters  *)
(* are written by name ("cyr_ya" is U+044F, "CYR_YA" is U+042F, "cyr_yo"   *)
(* is U+0451, which lies outside the range U+0430..U+044F).                 *)
(* A Python dict is a function whose domain is its set of keys.            *)
(***************************************************************************)
EXTENDS Integers, Sequences, FiniteSets, TLC

VARIABLES
    pc,           \* "call" before the function under study runs, then its position
    fn,           \* the function under study
    word,         \* argument of the classifiers and of parse_word
    part,         \* argument of parse_single_part
    request,      \* argument of request_to_trigram
    segments,     \* the segments the request was written from
    search_parts, i, requirements_for_tokens,   \* locals of request_to_trigram
    trigram,      \* argument of Trigram()
    token_1, token_2, token_3,                  \* fields of a LocalTrigram
    stream,       \* the tokens its walker has read so far
    walk,         \* the walker's position
    result,       \* what the function returned or raised
    morphCalls,   \* the calls made to the analyzer
    hashOrder     \* the process's set iteration order

parserVars == <<word, part, request, segments, search_parts, i, requirements_for_tokens>>
windowVars == <<trigram, token_1, token_2, token_3, stream, walk>>
vars == <<pc, fn, parserVars, windowVars, result, morphCalls, hashOrder>>

-----------------------------------------------------------------------------
(* Bounds of the explored inputs.                                          *)

MaxLen == 4
MaxParses == 2
MaxSegments == 4
MaxPos == 2
MaxStream == 4

-----------------------------------------------------------------------------
(* Characters.                                                             *)

LatinUpper == <<"A", "B", "C", "D", "E", "F", "G", "H", "I", "J", "K", "L", "M",
                "N", "O", "P", "Q", "R", "S", "T", "U", "V", "W", "X", "Y", "Z">>
LatinLower == <<"a", "b", "c", "d", "e", "f", "g", "h", "ix", "jx", "k", "l", "m",
                "n", "o", "p", "q", "r", "s", "t", "u", "v", "w", "x", "y", "z">>
CyrUpper == <<"CYR_YA", "CYR_YO">>
CyrLower == <<"cyr_ya", "cyr_yo">>

Range(s) == {s[ix] : ix \in DOMAIN s}

\* str.isalpha() on one character: any Unicode letter.
IsAlphaChar(c) ==
    c \in Range(LatinUpper) \cup Range(LatinLower) \cup Range(CyrUpper) \cup Range(CyrLower)

\* The regular expression class [a-zA-Zа-яА-Я].
InWordClass(c) ==
    c \in Range(LatinUpper) \cup Range(LatinLower) \cup {"cyr_ya", "CYR_YA"}

\* str.lower() on one character.
LowerChar(c) ==
    IF \E ix \in DOMAIN LatinUpper : LatinUpper[ix] = c
    THEN LatinLower[CHOOSE ix \in DOMAIN LatinUpper : LatinUpper[ix] = c]
    ELSE IF \E ix \in DOMAIN CyrUpper : CyrUpper[ix] = c
         THEN CyrLower[CHOOSE ix \in DOMAIN CyrUpper : CyrUpper[ix] = c]
         ELSE c

\* str.lower()
Lower(s) == [ix \in DOMAIN s |-> LowerChar(s[ix])]

\* str.isalpha(): non-empty and every character a letter.
IsAlpha(s) == Len(s) > 0 /\ \A ix \in DOMAIN s : IsAlphaChar(s[ix])

Str(chars, n) == UNION {[1..k -> chars] : k \in 0..n}

-----------------------------------------------------------------------------
(* Token classification.                                                   *)

possible_pos_tags ==
    { <<"A", "D", "J">>, <<"A", "D", "P">>, <<"A", "D", "V">>, <<"A", "U", "X">>,
      <<"I", "N", "T", "J">>, <<"C", "C", "O", "N", "J">>, <<"N", "O", "U", "N">>,
      <<"D", "E", "T">>, <<"P", "R", "O", "P", "N">>, <<"N", "U", "M">>,
      <<"V", "E", "R", "B">>, <<"P", "A", "R", "T">>, <<"P", "R", "O", "N">>,
      <<"S", "C", "O", "N", "J">>, <<"S", "Y", "M">>, <<"X">> }

\* s, as a whole, matches [..]+-?[..]+
WordPattern(s) ==
    \E k \in 1..(Len(s) - 1) :
        /\ \A ix \in 1..k : InWordClass(s[ix])
        /\ \/ \A ix \in (k + 1)..Len(s) : InWordClass(s[ix])
           \/ /\ s[k + 1] = "-"
              /\ k + 2 <= Len(s)
              /\ \A ix \in (k + 2)..Len(s) : InWordClass(s[ix])

\* re.match anchors the pattern at the start of the string only.
MatchWordPattern(s) == \E n \in 1..Len(s) : WordPattern(SubSeq(s, 1, n))

is_a_word(s) == IsAlpha(s) \/ MatchWordPattern(s)

\* re.match of q.*q : the string opens with q and q occurs again before any
\* line break ('.' matches every character but "\n").
MatchQuoted(s, q) ==
    /\ Len(s) >= 2
    /\ s[1] = q
    /\ \E jx \in 2..Len(s) : s[jx] = q /\ \A ix \in 2..(jx - 1) : s[ix] # "\n"

is_exact_form(s) == MatchQuoted(s, "\"") \/ MatchQuoted(s, "'")

is_pos_tag(s) == s \in possible_pos_tags

-----------------------------------------------------------------------------
(* The morphological analyzer (pymorphy2) is outside the repository: one  *)
(* call either raises or returns a list of parses, each parse modelled by *)
(* its normal_form.                                                        *)

NormalForms == { <<"a">>, <<"A">>, <<"b">> }

MorphReturns ==
    { [raised |-> TRUE, parses |-> <<>>] } \cup
    { [raised |-> FALSE, parses |-> p] : p \in Str(NormalForms, MaxParses) }

Perms(S) == { f \in [1..Cardinality(S) -> S] : \A ix, jx \in DOMAIN f : f[ix] = f[jx] => ix = jx }

\* The iteration order of a set of str is fixed by the process's hash seed:
\* an order over all the strings a set may hold.
HashOrders == Perms({ Lower(n) : n \in NormalForms })

\* list(a_set)
ListOfSet(S, order) == SelectSeq(order, LAMBDA x : x \in S)

-----------------------------------------------------------------------------
(* Outcomes of a call: the value returned, or the error raised, and the    *)
(* calls made to the analyzer on the way.                                  *)

Returned(v, calls) == [raised |-> "none", value |-> v, calls |-> calls]
Raised(e, calls) == [raised |-> e, value |-> <<>>, calls |-> calls]

IsQuote(c) == c = "'" \/ c = "\""

\* re.sub(r'\'|\"', '', s)
RemoveQuotes(s) == SelectSeq(s, LAMBDA c : ~IsQuote(c))

\* parse_word with the word test ahead of the POS-tag test.
parse_word_WordFirst(w, ret, order) ==
    IF is_a_word(w)
    THEN LET call == <<[arg |-> w, ret |-> ret]>>
             normal_forms == { Lower(ret.parses[k]) : k \in DOMAIN ret.parses }
         IN IF ret.raised
            THEN Raised("AnalyzerError", call)
            ELSE Returned([lemma |-> ListOfSet(normal_forms, order)], call)
    ELSE IF is_pos_tag(w)
    THEN Returned([pos |-> w], <<>>)
    ELSE IF is_exact_form(w)
    THEN Returned([word_form |-> RemoveQuotes(Lower(w))], <<>>)
    ELSE Raised("UnrecognizedToken", <<>>)

\* parse_word without the set(): every parse's normal form is listed.
parse_word_NoSet(w, ret, order) ==
    IF is_pos_tag(w)
    THEN Returned([pos |-> w], <<>>)
    ELSE IF is_exact_form(w)
    THEN Returned([word_form |-> RemoveQuotes(Lower(w))], <<>>)
    ELSE IF is_a_word(w)
    THEN LET call == <<[arg |-> w, ret |-> ret]>>
         IN IF ret.raised
            THEN Raised("AnalyzerError", call)
            ELSE Returned([lemma |-> [k \in DOMAIN ret.parses |-> Lower(ret.parses[k])]], call)
    ELSE Raised("UnrecognizedToken", <<>>)

parse_word(w, ret, order) ==
    IF is_pos_tag(w)
    THEN Returned([pos |-> w], <<>>)
    ELSE IF is_exact_form(w)
    THEN Returned([word_form |-> RemoveQuotes(Lower(w))], <<>>)
    ELSE IF is_a_word(w)
    THEN LET call == <<[arg |-> w, ret |-> ret]>>
             normal_forms == { Lower(ret.parses[k]) : k \in DOMAIN ret.parses }
         IN IF ret.raised
            THEN Raised("AnalyzerError", call)
            ELSE Returned([lemma |-> ListOfSet(normal_forms, order)], call)
    ELSE Raised("UnrecognizedToken", <<>>)

-----------------------------------------------------------------------------
(* parse_single_part                                                       *)

\* str.split(sep) for a one-character sep: the pieces between the separators.
RECURSIVE Split(_, _)
Split(s, sep) ==
    IF sep \notin Range(s)
    THEN <<s>>
    ELSE LET k == CHOOSE n \in DOMAIN s : s[n] = sep /\ \A m \in 1..(n - 1) : s[m] # sep
         IN <<SubSeq(s, 1, k - 1)>> \o Split(SubSeq(s, k + 1, Len(s)), sep)

\* dict.update
Update(d, e) ==
    [k \in DOMAIN d \cup DOMAIN e |-> IF k \in DOMAIN e THEN e[k] ELSE d[k]]

\* parse_single_part with the combination test ahead of the count of '+'.
parse_single_part_CombinationFirst(p, ret, order) ==
    IF "+" \in Range(p)
    THEN LET subparts == Split(p, "+")
         IN IF ~((is_a_word(subparts[1]) \/ is_exact_form(subparts[1]))
                 /\ is_pos_tag(subparts[2]))
            THEN Raised("InvalidCombination", <<>>)
            ELSE IF Len(subparts) > 2
            THEN Raised("TooManyOperators", <<>>)
            ELSE LET r == parse_word(subparts[1], ret, order)
                 IN IF r.raised # "none"
                    THEN r
                    ELSE Returned(Update([pos |-> subparts[2]], r.value), r.calls)
    ELSE parse_word(p, ret, order)

parse_single_part(p, ret, order) ==
    IF "+" \in Range(p)
    THEN LET subparts == Split(p, "+")
         IN IF Len(subparts) > 2
            THEN Raised("TooManyOperators", <<>>)
            ELSE IF ~((is_a_word(subparts[1]) \/ is_exact_form(subparts[1]))
                      /\ is_pos_tag(subparts[2]))
            THEN Raised("InvalidCombination", <<>>)
            ELSE LET r == parse_word(subparts[1], ret, order)
                 IN IF r.raised # "none"
                    THEN r
                    ELSE Returned(Update([pos |-> subparts[2]], r.value), r.calls)
    ELSE parse_word(p, ret, order)

-----------------------------------------------------------------------------
(* request_to_trigram                                                      *)

Whitespace == { " ", "\t", "\n" }

\* str.strip()
RECURSIVE Strip(_)
Strip(s) ==
    IF s = <<>> THEN s
    ELSE IF Head(s) \in Whitespace THEN Strip(Tail(s))
    ELSE IF s[Len(s)] \in Whitespace THEN Strip(SubSeq(s, 1, Len(s) - 1))
    ELSE s

\* str.split(): the maximal runs of characters that are not whitespace.
RECURSIVE SplitWhitespace(_)
SplitWhitespace(s) ==
    IF s = <<>> THEN <<>>
    ELSE IF Head(s) \in Whitespace THEN SplitWhitespace(Tail(s))
    ELSE LET stops == { n \in DOMAIN s : s[n] \in Whitespace }
             end == IF stops = {} THEN Len(s) + 1
                    ELSE CHOOSE n \in stops : \A m \in stops : n <= m
         IN <<SubSeq(s, 1, end - 1)>> \o SplitWhitespace(SubSeq(s, end, Len(s)))

\* The length test without its lower bound.
InvalidLength_NoLowerBound(parts) == Len(parts) > 3

\* len(search_parts) > 3 or len(search_parts) < 1
InvalidLength(parts) == Len(parts) > 3 \/ Len(parts) < 1

-----------------------------------------------------------------------------
(* Token, Trigram.  A Python tuple index k is the index k + 1 here.        *)

None == [none |-> TRUE]

Positions == (0..MaxPos) \X (0..MaxPos)

Tokens ==
    [text_position : Positions, sentence : {0}, wordform : {1, 2}, lemma : {1}, pos_tag : {1}]

OptionalTokens == Tokens \cup {None}

\* Token.__eq__(self, value), value a Token or None
Token_eq(self, value) ==
    IF value = None
    THEN FALSE
    ELSE /\ self.wordform = value.wordform
         /\ self.lemma = value.lemma
         /\ self.pos_tag = value.pos_tag
         /\ self.text_position = value.text_position

\* a == b on optional Tokens: None has no __eq__ for a Token, so the
\* comparison falls to the Token's, reflected.
Eq(a, b) ==
    IF a # None THEN Token_eq(a, b)
    ELSE IF b # None THEN Token_eq(b, a)
    ELSE TRUE

\* first_not_none = 0; while trigram[first_not_none] == None: first_not_none += 1
RECURSIVE FirstNotNone(_, _)
FirstNotNone(t, k) == IF Eq(t[k], None) THEN FirstNotNone(t, k + 1) ELSE k

\* last_not_none = 2; while trigram[last_not_none] == None: last_not_none -= 1
RECURSIVE LastNotNone(_, _)
LastNotNone(t, k) == IF Eq(t[k], None) THEN LastNotNone(t, k - 1) ELSE k

\* Trigram.__init__ taking both ends of the span from the first present slot.
Trigram_FirstSlotOnly(t) ==
    IF Eq(t[1], t[2]) /\ Eq(t[2], t[3]) /\ Eq(t[3], None)
    THEN Raised("InvalidTrigram", <<>>)
    ELSE Returned([trigram |-> t,
                   text_position |-> << t[FirstNotNone(t, 1)].text_position[1],
                                        t[FirstNotNone(t, 1)].text_position[2] >>], <<>>)

\* Trigram.__init__
Trigram(t) ==
    IF Eq(t[1], t[2]) /\ Eq(t[2], t[3]) /\ Eq(t[3], None)
    THEN Raised("InvalidTrigram", <<>>)
    ELSE Returned([trigram |-> t,
                   text_position |-> << t[FirstNotNone(t, 1)].text_position[1],
                                        t[LastNotNone(t, 3)].text_position[2] >>], <<>>)

-----------------------------------------------------------------------------
(* Inputs.                                                                 *)

Alphabet == { "a", "X", "-", "'", "\"", "1" }

CyrillicWords ==
    { <<"cyr_ya">>, <<"CYR_YA", "-", "cyr_ya">>, <<"cyr_ya", "1">>, <<"cyr_yo">> }

Words == Str(Alphabet, MaxLen) \cup possible_pos_tags \cup CyrillicWords

PartAlphabet == { "a", "X", "+", "'", "1" }

Atoms == Str(Alphabet, 1) \cup possible_pos_tags

Parts == Str(PartAlphabet, MaxLen) \cup { a \o <<"+">> \o b : a \in Atoms, b \in Atoms }

\* Segments: a word, a POS tag, a word with a tag, an exact form, and one
\* segment for each way a segment is rejected.
SegmentPool ==
    { <<"a">>, <<"X">>, <<"a", "+", "X">>, <<"'", "A", "'">>,
      <<"1">>, <<"a", "+", "+">>, <<"X", "+", "a">> }

Spacings ==
    { [lead |-> <<>>, sep |-> <<" ">>, trail |-> <<>>],
      [lead |-> <<"\t">>, sep |-> <<" ", "\n">>, trail |-> <<" ">>] }

RECURSIVE Join(_, _)
Join(segs, sep) ==
    IF segs = <<>> THEN <<>>
    ELSE IF Len(segs) = 1 THEN segs[1]
    ELSE segs[1] \o sep \o Join(Tail(segs), sep)

\* In a request the analyzer is taken to return at most one parse.
RequestReturns == { r \in MorphReturns : Len(r.parses) <= 1 }

\* The tokens of a stream: one per position.
StreamTokens == { t \in Tokens : t.wordform = 1 /\ t.text_position[1] = t.text_position[2] }

Idle == <<>>
NoResult == [raised |-> "none", value |-> <<>>]

Outcome(r) == [raised |-> r.raised, value |-> r.value]

\* Every variable but pc, fn, the argument and hashOrder, before the call.
InitParser ==
    /\ segments = Idle /\ search_parts = Idle /\ i = 0
    /\ requirements_for_tokens = Idle

InitWindow ==
    /\ trigram = Idle /\ token_1 = Idle /\ token_2 = Idle /\ token_3 = Idle
    /\ stream = Idle /\ walk = Idle

-----------------------------------------------------------------------------
(* The classifiers on every input word.                                    *)

InitClassify ==
    /\ pc = "call"
    /\ fn \in {"is_a_word", "is_exact_form", "is_pos_tag"}
    /\ word \in Words
    /\ part = Idle /\ request = Idle
    /\ InitParser /\ InitWindow
    /\ hashOrder \in HashOrders
    /\ result = NoResult
    /\ morphCalls = <<>>

Classify(f, v) ==
    /\ pc = "call"
    /\ fn = f
    /\ result' = [raised |-> "none", value |-> v]
    /\ pc' = "done"
    /\ UNCHANGED <<fn, parserVars, windowVars, morphCalls, hashOrder>>

CallIsAWord == Classify("is_a_word", is_a_word(word))
CallIsExactForm == Classify("is_exact_form", is_exact_form(word))
CallIsPosTag == Classify("is_pos_tag", is_pos_tag(word))

NextClassify == CallIsAWord \/ CallIsExactForm \/ CallIsPosTag

SpecClassify == InitClassify /\ [][NextClassify]_vars

-----------------------------------------------------------------------------
(* parse_word on every input word.                                         *)

InitWord ==
    /\ pc = "call"
    /\ fn = "parse_word"
    /\ word \in Words
    /\ part = Idle /\ request = Idle
    /\ InitParser /\ InitWindow
    /\ hashOrder \in HashOrders
    /\ result = NoResult
    /\ morphCalls = <<>>

CallParseWord ==
    /\ pc = "call"
    /\ fn = "parse_word"
    /\ \E ret \in MorphReturns :
         LET r == parse_word(word, ret, hashOrder)
         IN /\ result' = Outcome(r)
            /\ morphCalls' = r.calls
    /\ pc' = "done"
    /\ UNCHANGED <<fn, parserVars, windowVars, hashOrder>>

NextWord == CallParseWord

SpecWord == InitWord /\ [][NextWord]_vars

-----------------------------------------------------------------------------
(* parse_single_part on every input part.                                  *)

InitPart ==
    /\ pc = "call"
    /\ fn = "parse_single_part"
    /\ part \in Parts
    /\ word = Idle /\ request = Idle
    /\ InitParser /\ InitWindow
    /\ hashOrder \in HashOrders
    /\ result = NoResult
    /\ morphCalls = <<>>

CallParseSinglePart ==
    /\ pc = "call"
    /\ fn = "parse_single_part"
    /\ \E ret \in MorphReturns :
         LET r == parse_single_part(part, ret, hashOrder)
         IN /\ result' = Outcome(r)
            /\ morphCalls' = r.calls
    /\ pc' = "done"
    /\ UNCHANGED <<fn, parserVars, windowVars, hashOrder>>

NextPart == CallParseSinglePart

SpecPart == InitPart /\ [][NextPart]_vars

-----------------------------------------------------------------------------
(* request_to_trigram on requests written from segments.                   *)

InitRequest ==
    /\ pc = "call"
    /\ fn = "request_to_trigram"
    /\ segments \in Str(SegmentPool, MaxSegments)
    /\ \E sp \in Spacings : request = sp.lead \o Join(segments, sp.sep) \o sp.trail
    /\ word = Idle /\ part = Idle
    /\ search_parts = Idle /\ i = 0 /\ requirements_for_tokens = Idle
    /\ InitWindow
    /\ hashOrder \in HashOrders
    /\ result = NoResult
    /\ morphCalls = <<>>

\* Lines 160-165: split the request and check the number of parts.
CallRequestToTrigram ==
    /\ pc = "call"
    /\ fn = "request_to_trigram"
    /\ LET parts == SplitWhitespace(Strip(request))
       IN /\ search_parts' = parts
          /\ requirements_for_tokens' = <<>>
          /\ IF InvalidLength(parts)
             THEN /\ result' = Outcome(Raised("InvalidLength", <<>>))
                  /\ pc' = "done"
             ELSE /\ result' = result
                  /\ pc' = "loop"
    /\ UNCHANGED <<fn, word, part, request, segments, i, windowVars, morphCalls, hashOrder>>

\* Lines 167-168: one turn of the loop over the parts.
ParseNextPart ==
    /\ pc = "loop"
    /\ i < Len(search_parts)
    /\ \E ret \in RequestReturns :
         LET r == parse_single_part(search_parts[i + 1], ret, hashOrder)
         IN /\ morphCalls' = morphCalls \o r.calls
            /\ IF r.raised # "none"
               THEN /\ result' = Outcome(r)
                    /\ pc' = "done"
                    /\ UNCHANGED <<i, requirements_for_tokens>>
               ELSE /\ requirements_for_tokens' = Append(requirements_for_tokens, r.value)
                    /\ i' = i + 1
                    /\ UNCHANGED <<pc, result>>
    /\ UNCHANGED <<fn, word, part, request, segments, search_parts, windowVars, hashOrder>>

\* Line 169
ReturnRequirements ==
    /\ pc = "loop"
    /\ i = Len(search_parts)
    /\ result' = Outcome(Returned(requirements_for_tokens, <<>>))
    /\ pc' = "done"
    /\ UNCHANGED <<fn, parserVars, windowVars, morphCalls, hashOrder>>

NextRequest == CallRequestToTrigram \/ ParseNextPart \/ ReturnRequirements

SpecRequest == InitRequest /\ [][NextRequest]_vars

-----------------------------------------------------------------------------
(* Trigram() on every triple of optional tokens.                           *)

InitTrigram ==
    /\ pc = "call"
    /\ fn = "Trigram"
    /\ trigram \in OptionalTokens \X OptionalTokens \X OptionalTokens
    /\ word = Idle /\ part = Idle /\ request = Idle
    /\ InitParser
    /\ token_1 = Idle /\ token_2 = Idle /\ token_3 = Idle
    /\ stream = Idle /\ walk = Idle
    /\ hashOrder \in HashOrders
    /\ result = NoResult
    /\ morphCalls = <<>>

CallTrigram ==
    /\ pc = "call"
    /\ fn = "Trigram"
    /\ result' = Outcome(Trigram(trigram))
    /\ pc' = "done"
    /\ UNCHANGED <<fn, parserVars, windowVars, morphCalls, hashOrder>>

NextTrigram == CallTrigram

SpecTrigram == InitTrigram /\ [][NextTrigram]_vars

-----------------------------------------------------------------------------
(* A LocalTrigram and the walker that owns it.  walk records whether the   *)
(* walker has so far started from an empty window and alternated move()    *)
(* with an assignment to token_3, its last operation, and the number of    *)
(* moves since the last assignment.                                        *)

\* LocalTrigram.__init__
InitLocal ==
    /\ pc = "walk"
    /\ fn = "LocalTrigram"
    /\ token_1 \in {None} \cup StreamTokens
    /\ token_2 \in {None} \cup StreamTokens
    /\ token_3 \in {None} \cup StreamTokens
    /\ stream = <<>>
    /\ walk = [protocol |-> token_1 = None /\ token_2 = None /\ token_3 = None,
               last |-> "init", moves |-> 0]
    /\ trigram = Idle
    /\ word = Idle /\ part = Idle /\ request = Idle
    /\ InitParser
    /\ hashOrder \in HashOrders
    /\ result = NoResult
    /\ morphCalls = <<>>

\* move() without clearing token_3.
Moved_KeepsThird(t1, t2, t3) == <<t2, t3, t3>>

\* The window after move().
Moved(t1, t2, t3) == <<t2, t3, None>>

\* LocalTrigram.move
Move ==
    /\ pc = "walk"
    /\ LET w == Moved(token_1, token_2, token_3)
       IN token_1' = w[1] /\ token_2' = w[2] /\ token_3' = w[3]
    /\ walk' = [protocol |-> walk.protocol /\ walk.last # "move",
                last |-> "move",
                moves |-> IF walk.moves < 3 THEN walk.moves + 1 ELSE 3]
    /\ UNCHANGED <<pc, fn, parserVars, trigram, stream, result, morphCalls, hashOrder>>

\* The walker stores the token it has read: local_trigram.token_3 = token
SetToken3 ==
    /\ pc = "walk"
    /\ Len(stream) < MaxStream
    /\ \E token \in StreamTokens :
         /\ token_3' = token
         /\ walk' = [protocol |-> walk.protocol /\ walk.last = "move",
                     last |-> "assign", moves |-> 0]
         /\ stream' = IF walk'.protocol THEN Append(stream, token) ELSE stream
    /\ UNCHANGED <<pc, fn, parserVars, trigram, token_1, token_2, result, morphCalls, hashOrder>>

NextLocal == Move \/ SetToken3

SpecLocal == InitLocal /\ [][NextLocal]_vars

-----------------------------------------------------------------------------
(* Properties of the classifier and of parse_word.                         *)

Done == pc = "done"
DoneWith(f) == pc = "done" /\ fn = f

NoDuplicates(s) == \A ix, jx \in DOMAIN s : s[ix] = s[jx] => ix = jx

\* A letter of the Latin or of the Cyrillic alphabet.
IsLetter(c) ==
    c \in Range(LatinUpper) \cup Range(LatinLower) \cup Range(CyrUpper) \cup Range(CyrLower)

AllLetters(s, from, to) == from <= to /\ \A ix \in from..to : IsLetter(s[ix])

\* The whole of s is wrapped in one pair of equal quote characters.
WrappedInQuotes(s) == Len(s) >= 2 /\ IsQuote(s[1]) /\ s[Len(s)] = s[1]

\* The whole of s is: letters, or letters "-" letters.
WordShape(s) ==
    \/ AllLetters(s, 1, Len(s))
    \/ \E h \in 2..(Len(s) - 1) :
         s[h] = "-" /\ AllLetters(s, 1, h - 1) /\ AllLetters(s, h + 1, Len(s))

\* C8: is_exact_form(s) is true iff s is fully wrapped in a matching pair of
\* single or of double quotes, the pair covering the whole string.
C8_ExactFormIffWrapped ==
    DoneWith("is_exact_form") => (result.value <=> WrappedInQuotes(word))

\* C9: is_word(s) is true iff s consists entirely of letters or, as a whole,
\* is a run of letters, one hyphen, a run of letters.
C9_WordIffWordShape ==
    DoneWith("is_a_word") => (result.value <=> WordShape(word))

C5_WordFormIsQuotedContent ==
    (Done /\ word \notin possible_pos_tags /\ is_exact_form(word) /\ WrappedInQuotes(word)) =>
      /\ result.raised = "none"
      /\ DOMAIN result.value = {"word_form"}
      /\ result.value.word_form = Lower(SubSeq(word, 2, Len(word) - 1))

LemmaBranch == word \notin possible_pos_tags /\ ~is_exact_form(word) /\ is_a_word(word)

\* What the call returns for what the analyzer returned.
LemmaOutcome(call) ==
    IF call.ret.raised
    THEN result.raised = "AnalyzerError"
    ELSE /\ result.raised = "none"
         /\ DOMAIN result.value = {"lemma"}
         /\ NoDuplicates(result.value.lemma)
         /\ Range(result.value.lemma) = { Lower(n) : n \in Range(call.ret.parses) }

\* C10 as stated: for a word that is neither POS tag nor exact form, the
\* analyzer is called exactly once, with the lower-cased word, and the result
\* is {lemma: L}, L the distinct lower-cased normal forms; a failure of the
\* analyzer propagates.
C10_ResolverGetsLowerCased ==
    (Done /\ LemmaBranch) =>
      /\ Len(morphCalls) = 1
      /\ morphCalls[1].arg = Lower(word)
      /\ LemmaOutcome(morphCalls[1])

\* C10 amended: the analyzer is called exactly once with the word as given.
C10_ResolverGetsWord ==
    (Done /\ LemmaBranch) =>
      /\ Len(morphCalls) = 1
      /\ morphCalls[1].arg = word
      /\ LemmaOutcome(morphCalls[1])

\* A word with an upper-case letter was resolved, and the analyzer returned
\* two normal forms that differ by case only.
C10_Witness ==
    /\ Done
    /\ LemmaBranch
    /\ word # Lower(word)
    /\ Len(morphCalls) = 1
    /\ morphCalls[1].ret.parses = << <<"A">>, <<"a">> >>
    /\ result.raised = "none"
    /\ result.value.lemma = << <<"a">> >>

-----------------------------------------------------------------------------
(* Properties of parse_single_part.                                        *)

PlusCount(s) == Cardinality({ k \in DOMAIN s : s[k] = "+" })

\* What the analyzer returned to the call, if it was called.
LoggedReturn == IF morphCalls = <<>> THEN [raised |-> FALSE, parses |-> <<>>]
                ELSE morphCalls[1].ret

\* C2: for a segment a+b with exactly one '+': InvalidCombinationError iff not
\* ((is_word(a) or is_exact_form(a)) and is_pos_tag(b)); otherwise the result
\* has pos = b and carries the lemma or word_form produced for a.
C2_CombinationKeepsTag ==
    (DoneWith("parse_single_part") /\ PlusCount(part) = 1) =>
      LET k == CHOOSE n \in DOMAIN part : part[n] = "+"
          a == SubSeq(part, 1, k - 1)
          b == SubSeq(part, k + 1, Len(part))
          valid == (is_a_word(a) \/ is_exact_form(a)) /\ b \in possible_pos_tags
      IN /\ result.raised = "InvalidCombination" <=> ~valid
         /\ valid => result.raised \in {"none", "AnalyzerError"}
         /\ (valid /\ result.raised = "none") =>
              /\ result.value.pos = b
              /\ DOMAIN result.value \in { {"pos", "lemma"}, {"pos", "word_form"} }

\* C3: a segment with more than one '+' fails with TooManyOperatorsError
\* whatever its sub-parts are, before the analyzer is called; a segment with no
\* '+' is parsed exactly as parse_word parses it.
C3_OperatorCountFirst ==
    DoneWith("parse_single_part") =>
      /\ PlusCount(part) > 1 =>
           /\ result = [raised |-> "TooManyOperators", value |-> <<>>]
           /\ morphCalls = <<>>
      /\ PlusCount(part) = 0 =>
           LET r == parse_word(part, LoggedReturn, hashOrder)
           IN result = Outcome(r) /\ morphCalls = r.calls

\* A segment whose first two sub-parts are a word and a POS tag was rejected
\* for its second '+'.
C3_Witness ==
    /\ DoneWith("parse_single_part")
    /\ part = <<"a", "+", "X", "+">>
    /\ result.raised = "TooManyOperators"

-----------------------------------------------------------------------------
(* Properties of request_to_trigram.                                       *)

\* The outcome for the segments segs, given the log of the analyzer's calls:
\* parse_single_part on each segment in turn, up to the first that fails.
RECURSIVE SegmentsOutcome(_, _, _)
SegmentsOutcome(segs, calls, acc) ==
    IF segs = <<>>
    THEN [raised |-> "none", value |-> acc, rest |-> calls]
    ELSE LET ret == IF calls = <<>> THEN [raised |-> FALSE, parses |-> <<>>]
                    ELSE Head(calls).ret
             r == parse_single_part(Head(segs), ret, hashOrder)
         IN IF r.calls # <<>> /\ (calls = <<>> \/ <<Head(calls)>> # r.calls)
            THEN [raised |-> "unlogged call", value |-> <<>>, rest |-> calls]
            ELSE IF r.raised # "none"
            THEN [raised |-> r.raised, value |-> <<>>,
                  rest |-> IF r.calls = <<>> THEN calls ELSE Tail(calls)]
            ELSE SegmentsOutcome(Tail(segs),
                                 IF r.calls = <<>> THEN calls ELSE Tail(calls),
                                 Append(acc, r.value))

\* C1: a request of n segments fails with InvalidLengthError when n = 0 or
\* n > 3, before any segment is parsed; otherwise it returns the map with keys
\* 1..n, key k holding parse_single_part of the k-th segment, or fails with the
\* error of the first segment that fails, returning no map.
C1_RequestToTrigram ==
    DoneWith("request_to_trigram") =>
      LET n == Len(segments)
      IN /\ (n = 0 \/ n > 3) =>
              /\ result = [raised |-> "InvalidLength", value |-> <<>>]
              /\ morphCalls = <<>>
              /\ requirements_for_tokens = <<>>
         /\ n \in 1..3 =>
              LET e == SegmentsOutcome(segments, morphCalls, <<>>)
              IN /\ result = [raised |-> e.raised, value |-> e.value]
                 /\ e.rest = <<>>
                 /\ result.raised = "none" => DOMAIN result.value = 1..n

\* A request of three segments with more whitespace than one space between
\* them was parsed into a map of three requirements.
C1_Witness ==
    /\ DoneWith("request_to_trigram")
    /\ Len(segments) = 3
    /\ request # Join(segments, <<" ">>)
    /\ result.raised = "none"
    /\ DOMAIN result.value = 1..3
    /\ morphCalls # <<>>

-----------------------------------------------------------------------------
(* Properties of Trigram and LocalTrigram.                                 *)

Present(t) == { k \in 1..3 : t[k] # None }

\* C6: Trigram() fails with InvalidTrigramError iff all three slots are absent;
\* otherwise the span is (start of the first present slot, end of the last).
C6_TrigramSpan ==
    DoneWith("Trigram") =>
      /\ result.raised = "InvalidTrigram" <=> Present(trigram) = {}
      /\ Present(trigram) # {} =>
           LET first == CHOOSE k \in Present(trigram) : \A m \in Present(trigram) : k <= m
               last == CHOOSE k \in Present(trigram) : \A m \in Present(trigram) : m <= k
           IN /\ result.raised = "none"
              /\ result.value.trigram = trigram
              /\ result.value.text_position =
                   << trigram[first].text_position[1], trigram[last].text_position[2] >>

\* A Trigram with only its middle slot present has that slot's span.
C6_Witness ==
    /\ DoneWith("Trigram")
    /\ Present(trigram) = {2}
    /\ trigram[2].text_position = <<1, 2>>
    /\ result.raised = "none"
    /\ result.value.text_position = <<1, 2>>

StreamAt(k) == IF k < 1 THEN None ELSE stream[k]

\* C7: move() makes slot 1 hold the previous slot 2, slot 2 the previous slot 3
\* and slot 3 absent, so three moves in a row empty the window; and a walker
\* that starts from an empty window and repeats "move(), assign the next token
\* to token_3" has, after k tokens, the window (s[k-2], s[k-1], s[k]).
C7_MoveShiftsWindow ==
    /\ [][walk'.last = "move" =>
            token_1' = token_2 /\ token_2' = token_3 /\ token_3' = None]_vars
    /\ [](fn = "LocalTrigram" =>
            /\ walk.moves >= 3 =>
                 token_1 = None /\ token_2 = None /\ token_3 = None
            /\ (walk.protocol /\ walk.last = "assign") =>
                 /\ token_1 = StreamAt(Len(stream) - 2)
                 /\ token_2 = StreamAt(Len(stream) - 1)
                 /\ token_3 = StreamAt(Len(stream)))

\* The walker has read four tokens and the window holds the last three.
C7_Witness ==
    /\ fn = "LocalTrigram"
    /\ walk.protocol
    /\ walk.last = "assign"
    /\ Len(stream) > 3
    /\ <<token_1, token_2, token_3>> = SubSeq(stream, Len(stream) - 2, Len(stream))
    /\ token_1 # token_2

====
